---- MODULE Spec2Model ----
(***************************************************************************)
(* A model of the asynchronous runtime of agents-cpp:                      *)
(*   - Task<T> / Task<void>  (include/agents-cpp/coroutine_utils.h)        *)
(*   - get_sync / blockingWait, the blocking bridge                        *)
(*   - AsyncGenerator<T>, collectAllFromGenerator / collectAll             *)
(*   - the ActorAgent worker loop and its feedback slot                    *)
(*     (declared in include/agents-cpp/agents/actor_agent.h)               *)
(***************************************************************************)
EXTENDS Integers, Sequences, FiniteSets, TLC

(***************************************************************************)
(* Bounds of the model.                                                    *)
(***************************************************************************)
NumFrames == 3
ChainDepth == 2
MaxSuspends == 2
MaxSpurious == 1
MaxYield == 2
MaxPulls == 4
MaxTasks == 3
MaxCalls == 2
MaxWork == 3
MaxCallerSteps == 3
NumObjects == 3
NumOwned == 2

Frames == 1..NumFrames
Root == 1
Null == 0
Threads == {"main", "bg"}
Values == {"a", "b"}
Errors == {"boom"}

\* slot contents that are not program values
Empty == "empty"
NoExc == "noexc"
Moved == "moved"
Garbage == "garbage"
Nullopt == "nullopt"

VARIABLES
    \* ---- Task<T>: one coroutine frame per element of Frames ----
    st,          \* frame state: none, init, running, awaiting, susp, resuming, raised, final
    promise,     \* promise_type: result, exception, continuation, on_completed
    owner,       \* the frame whose body created the Task (Null: created by main)
    awaiting,    \* the Task a frame is suspended on (its awaiter object)
    got,         \* what the last await_resume of the frame's body produced
    inflight,    \* the exception travelling through the frame's body
    cur,         \* per thread: the coroutine it is executing (Null: back in native code)
    plan,        \* per thread: what is left of final_awaiter::await_suspend
    suspends,    \* number of plain suspensions so far
    trivialT,    \* whether moving a T out of the result slot leaves it unchanged
    \* ---- get_sync on the main thread ----
    mpc,         \* position of the caller in get_sync
    m,           \* get_sync's local mutex: free / held
    done,        \* get_sync's local flag
    syncOut,     \* what get_sync returned or raised
    spurious,    \* number of spurious wakeups so far
    \* ---- the Task object the main thread holds ----
    taskCoro,    \* its handle _coro: Root, or Null once the Task was moved from
    calls,       \* number of get_sync calls made on it so far
    ub,          \* the undefined operation performed, if any
    \* ---- history of the Task frames ----
    bodyOut,     \* what the body of a frame co_returned or let escape
    hist,        \* per frame: notifier and continuation events
    \* ---- Task<void>: the same operations applied to a Task<void> ----
    vpromise,    \* Task<void>::promise_type: exception, continuation, on_completed
    vplan,       \* per thread: what is left of its final_awaiter::await_suspend
    vdone,       \* the local flag of Task<void>::get_sync
    vgot,        \* what the last await_resume on a Task<void> produced
    vsyncOut,    \* what Task<void>::get_sync returned or raised
    \* ---- AsyncGenerator<T> and its consumer ----
    gsrc,        \* the values the stream body yields, in order
    gend,        \* how the stream body ends after them: return / throw
    gen,         \* the generator frame: state, position, promise (current, exception)
    nst,         \* the Task<optional<T>> of the next() in progress: none, running, resumed, final
    np,          \* its promise
    mode,        \* the consumer: collect (collectAll) or pull (a loop of co_await next())
    cpc,         \* position of the consumer: loop, awaiting, resumed, done, crashed
    item,        \* what the last co_await generator.next() produced
    results,     \* collectAllFromGenerator's vector
    collectOut,  \* what collectAll returned or raised
    pulls,       \* number of next() calls awaited so far
    nready,      \* number of next() Tasks created and not yet awaited
    ghist,       \* history of the drain
    \* ---- ActorAgent: queue, worker thread, feedback slot ----
    inbound_tasks_,     \* std::queue<String>
    stop_flag_,         \* std::atomic<bool>
    queue_mutex_,       \* free / worker
    feedback_promise_,  \* the feedback slot: none (no wait yet), empty (wait
                        \* outstanding), the text it was filled with, or taken
    state_,             \* Agent::State
    wpc,         \* position of the worker thread in its loop
    wcur,        \* the task the worker is processing (0: none)
    wasked,      \* whether the task in flight has already waited for feedback
    spc,         \* position of the caller of stop(): idle, flagged, notified
    nsub,        \* number of tasks submitted so far
    ahist,       \* history: tasks dequeued, processed (finished or failed), the number
                 \* submitted at the first failure; feedback given, received, dropped
    \* ---- Executor: detached units of work ----
    work,        \* per unit: none, running, returned, threw
    process,     \* the process: alive, or terminated by std::terminate
    callerSteps, \* number of statements the caller of add() has executed since
    \* ---- Task / AsyncGenerator objects and the frames they hold ----
    object,      \* per object: life (unborn, live, dead), kind, _coro (a frame or Null)
    frame,       \* per frame: kind (none until created), number of destroy() calls
    \* ---- a blockingWait inside a body driven by a blockingWait ----
    nest         \* per level (outer, inner): the caller's position in get_sync (pc),
                 \* its locals m and done, what it returned (out); the body of the
                 \* Task (st), the thread running it (on), its stored outcome (res),
                 \* the steps of on_completed still ahead (fin), counters

voidVars == <<vpromise, vplan, vdone, vgot, vsyncOut>>

lifeVars == <<taskCoro, calls, ub>>

taskVars == <<st, promise, owner, awaiting, got, inflight, cur, plan, suspends,
              trivialT, mpc, m, done, syncOut, spurious, bodyOut, hist, voidVars,
              lifeVars>>

genVars == <<gsrc, gend, gen, nst, np, mode, cpc, item, results, collectOut, pulls, nready,
            ghist>>

actorVars == <<inbound_tasks_, stop_flag_, queue_mutex_, feedback_promise_, state_,
               wpc, wcur, wasked, spc, nsub, ahist>>

\* what an operation on Tasks, on the generator, on the actor, leaves alone
execVars == <<work, process, callerSteps>>

ownVars == <<object, frame>>

notTaskVars == <<genVars, actorVars, execVars, ownVars, nest>>
notGenVars == <<taskVars, actorVars, execVars, ownVars, nest>>
notActorVars == <<taskVars, genVars, execVars, ownVars, nest>>
notExecVars == <<taskVars, genVars, actorVars, ownVars, nest>>
notOwnVars == <<taskVars, genVars, actorVars, execVars, nest>>
notNestVars == <<taskVars, genVars, actorVars, execVars, ownVars>>

vars == <<taskVars, genVars, actorVars, execVars, ownVars, nest>>

----------------------------------------------------------------------------
(***************************************************************************)
(* Task<T>::promise_type                                                   *)
(***************************************************************************)
Val(v) == [kind |-> "val", val |-> v]
Err(e) == [kind |-> "err", val |-> e]
NoOutcome == [kind |-> "none", val |-> Empty]

NewPromise == [result |-> Empty, exception |-> NoExc,
               continuation |-> Null, on_completed |-> FALSE]

\* return_value(U&& value) { result = std::forward<U>(value); }
\* Assigning std::nullopt to the std::optional result slot resets it.
return_value(p, v) ==
    [p EXCEPT !.result = IF v = Nullopt THEN Empty ELSE v]

unhandled_exception_dropped(p, e) == p
\* unhandled_exception() { exception = std::current_exception(); }
unhandled_exception(p, e) == [p EXCEPT !.exception = e]

Resolved(p) == p.result # Empty \/ p.exception # NoExc

\* the body of the lambda get_sync installs as on_completed
on_completed_steps == <<"set_done", "notify_one">>

final_await_suspend_transfer_first(p) ==
    <<"transfer">> \o (IF p.on_completed THEN on_completed_steps ELSE <<>>)
\* final_awaiter::await_suspend: the notifier, if set, then the continuation
final_await_suspend(p) ==
    (IF p.on_completed THEN on_completed_steps ELSE <<>>) \o <<"transfer">>

initial_suspend_never == "running"
\* std::suspend_always initial_suspend() noexcept { return {}; }
\* the state of a frame when the coroutine function returns its Task
initial_suspend == "init"

await_ready_never(c) == FALSE
\* bool await_ready() const noexcept { return !_coro || _coro.done(); }
await_ready(c) == st[c] = "none" \/ st[c] = "final"

await_suspend_resumes_awaiting(awaitingFrame, coro) == awaitingFrame
\* void await_suspend(awaiting): continuation = awaiting; _coro.resume();
\* the coroutine that runs next is _coro, the awaiting one stays suspended
await_suspend(awaitingFrame, coro) == coro

Crashed == [kind |-> "crash", val |-> Empty]

\* What std::move(*result) produces. Dereferencing an empty std::optional is
\* undefined: the read sees whatever the never-written storage of the frame
\* holds (an inner optional that looks empty, or one that looks engaged and
\* carries garbage), or the program dies.
Deref(result) ==
    IF result = Empty THEN {Val(Nullopt), Val(Garbage), Crashed} ELSE {Val(result)}

await_resume_value_only(p) == Deref(p.result)
\* await_resume(): rethrow the stored exception, else std::move(*result)
await_resume(p) ==
    IF p.exception # NoExc THEN {Err(p.exception)} ELSE Deref(p.result)

\* the result slot after std::move(*result)
MovedFrom(p) ==
    IF p.exception # NoExc \/ p.result = Empty \/ trivialT THEN p
    ELSE [p EXCEPT !.result = Moved]

InvalidTask == "Invalid Task"

get_sync_valid_always(h) == TRUE
\* if (!_coro) { throw std::runtime_error("Invalid Task"); }
get_sync_valid(h) == h # Null

moved_from_kept(h) == h
\* Task(Task&& other) noexcept : _coro(std::exchange(other._coro, {}))
moved_from(h) == Null

get_sync_wait_pred_always == TRUE
\* cv.wait(lk, [&]{ return done; })
get_sync_wait_pred == done

----------------------------------------------------------------------------
(***************************************************************************)
(* Task<void> and its promise_type                                         *)
(***************************************************************************)
Unit == "void"

NewVoidPromise == [exception |-> NoExc, continuation |-> Null, on_completed |-> FALSE]

\* void return_void() {}
return_void(p) == p

\* unhandled_exception() { exception = std::current_exception(); }
void_unhandled_exception(p, e) == [p EXCEPT !.exception = e]

\* the body of the lambda Task<void>::get_sync installs as on_completed
void_on_completed_steps == <<"set_done", "notify_one">>

\* final_awaiter::await_suspend: the notifier, if set, then the continuation
void_final_await_suspend(p) ==
    (IF p.on_completed THEN void_on_completed_steps ELSE <<>>) \o <<"transfer">>

\* bool await_ready() const noexcept { return !_coro || _coro.done(); }
void_await_ready(c) == st[c] = "none" \/ st[c] = "final"

\* void await_suspend(awaiting): continuation = awaiting; _coro.resume();
void_await_suspend(awaitingFrame, coro) == coro

void_await_resume_silent(p) == {Val(Unit)}
\* void await_resume(): rethrow the stored exception, else return
void_await_resume(p) ==
    IF p.exception # NoExc THEN {Err(p.exception)} ELSE {Val(Unit)}

\* cv.wait(lk, [&]{ return done; })
void_get_sync_wait_pred == vdone

\* one step of the final awaiter of a Task<void>
void_final_step(pl, d) ==
    [plan |-> IF pl = <<>> \/ Head(pl) = "transfer" THEN <<>> ELSE Tail(pl),
     done |-> d \/ (pl # <<>> /\ Head(pl) = "set_done")]

----------------------------------------------------------------------------
NewHist == [notify |-> 0, notifyStored |-> TRUE, woke |-> FALSE, left |-> FALSE,
            transfers |-> 0, transferAfterNotify |-> TRUE, transferResolved |-> TRUE,
            registered |-> 0, replaced |-> FALSE, awaits |-> 0,
            reads |-> 0, firstRead |-> NoOutcome, raised |-> 0]

\* a history counter that stops at 2: none, one, several
Count2(n) == IF n < 2 THEN n + 1 ELSE 2

----------------------------------------------------------------------------
InitTask ==
    /\ st = [f \in Frames |-> IF f = Root THEN "init" ELSE "none"]
    /\ promise = [f \in Frames |-> NewPromise]
    /\ owner = [f \in Frames |-> Null]
    /\ awaiting = [f \in Frames |-> Null]
    /\ got = [f \in Frames |-> NoOutcome]
    /\ inflight = [f \in Frames |-> NoExc]
    /\ cur = [t \in Threads |-> Null]
    /\ plan = [t \in Threads |-> <<>>]
    /\ suspends = 0
    /\ trivialT \in BOOLEAN
    /\ mpc = "start"
    /\ m = "free"
    /\ done = FALSE
    /\ syncOut = NoOutcome
    /\ spurious = 0
    /\ bodyOut = [f \in Frames |-> NoOutcome]
    /\ hist = [f \in Frames |-> NewHist]
    /\ vpromise = [f \in Frames |-> NewVoidPromise]
    /\ vplan = [t \in Threads |-> <<>>]
    /\ vdone = FALSE
    /\ vgot = [f \in Frames |-> NoOutcome]
    /\ vsyncOut = NoOutcome
    /\ taskCoro = Root
    /\ calls = 1
    /\ ub = "none"

\* the generator part before any generator exists
IdleGen ==
    /\ gsrc = <<>> /\ gend = "return"
    /\ gen = [st |-> "none", pos |-> 0, current |-> Empty, exception |-> NoExc]
    /\ nst = "none" /\ np = NewPromise
    /\ mode = "none" /\ cpc = "done"
    /\ item = NoOutcome /\ results = <<>> /\ collectOut = NoOutcome
    /\ pulls = 0 /\ nready = 0
    /\ ghist = [resumes |-> 0, terminals |-> 0, termSeen |-> FALSE,
                lateResumes |-> 0, lateValue |-> FALSE, threwIn |-> 0,
                pending |-> FALSE, overwritten |-> FALSE, ahead |-> FALSE]

\* State state_ = State::READY; std::atomic<bool> stop_flag_{false}; the
\* queue is empty and the worker thread is at the top of its loop
InitActor ==
    /\ inbound_tasks_ = <<>>
    /\ stop_flag_ = FALSE
    /\ queue_mutex_ = "free"
    /\ feedback_promise_ = "none"
    /\ state_ = "READY"
    /\ wpc = "top"
    /\ wcur = 0
    /\ wasked = FALSE
    /\ spc = "idle"
    /\ nsub = 0
    /\ ahist = [started |-> <<>>, processed |-> <<>>, finished |-> <<>>,
                errors |-> <<>>, subAtError |-> 0,
                given |-> "none", got |-> "none", dropped |-> 0, stopInFlight |-> 0, unheard |-> 0,
                firstText |-> "none",
                stopWhileWaiting |-> FALSE]

\* no unit of work was handed to the Executor yet
InitExec ==
    /\ work = [w \in 1..MaxWork |-> "none"]
    /\ process = "alive"
    /\ callerSteps = 0

\* no Task or AsyncGenerator object was constructed yet, no frame allocated
InitOwn ==
    /\ object = [o \in 1..NumObjects |-> [life |-> "unborn", kind |-> "none", coro |-> Null]]
    /\ frame = [f \in 1..NumOwned |-> [kind |-> "none", destroys |-> 0]]

\* main is about to call blockingWait(outer); the Task the body of outer
\* will pass to blockingWait does not exist yet
InitNest ==
    nest = [l \in {"outer", "inner"} |->
               [pc |-> IF l = "outer" THEN "start" ELSE "idle",
                m |-> "free", done |-> FALSE, out |-> [kind |-> "none", val |-> "empty"],
                st |-> IF l = "outer" THEN "init" ELSE "none",
                on |-> "none", res |-> [kind |-> "none", val |-> "empty"],
                fin |-> <<>>, susp |-> 0, spur |-> 0]]

Init == InitTask /\ IdleGen /\ InitActor /\ InitExec /\ InitOwn /\ InitNest

Running(t, f) == cur[t] = f /\ f # Null /\ st[f] = "running"

\* A coroutine function is called: the frame is created suspended at
\* initial_suspend (std::suspend_always), nothing of the body runs.
BodyCreate(t, f, c) ==
    /\ Running(t, f)
    /\ st[c] = "none"
    /\ \A d \in Frames : d < c => st[d] # "none"    \* frames are numbered as created
    /\ st' = [st EXCEPT ![c] = initial_suspend]
    /\ owner' = [owner EXCEPT ![c] = f]
    /\ UNCHANGED <<promise, awaiting, got, inflight, cur, plan, suspends, trivialT,
                   mpc, m, done, syncOut, spurious, bodyOut, hist>>
    /\ UNCHANGED voidVars
    /\ UNCHANGED lifeVars
    /\ UNCHANGED notTaskVars

\* ~Task() { if (_coro) _coro.destroy(); }
\* the body of f lets the Task c it created go out of scope
BodyDrop(t, f, c) ==
    /\ Running(t, f)
    /\ owner[c] = f
    /\ st[c] \in {"init", "final"}
    /\ st' = [st EXCEPT ![c] = "destroyed"]
    /\ UNCHANGED <<promise, owner, awaiting, got, inflight, cur, plan, suspends, trivialT,
                   mpc, m, done, syncOut, spurious, bodyOut, hist>>
    /\ UNCHANGED voidVars
    /\ UNCHANGED lifeVars
    /\ UNCHANGED notTaskVars

\* co_await c, with c not ready: Task::await_suspend
BodyAwait(t, f, c) ==
    /\ Running(t, f)
    /\ owner[c] = f
    /\ st[c] \in {"init", "susp", "final"}
    /\ ~await_ready(c)
    /\ LET next == await_suspend(f, c) IN
       /\ promise' = [promise EXCEPT ![c].continuation = f]
       /\ hist' = [hist EXCEPT ![c].registered = Count2(@),
                               ![c].replaced = @ \/ promise[c].continuation # Null,
                               ![c].awaits = Count2(@)]
       /\ awaiting' = [awaiting EXCEPT ![f] = c]
       /\ got' = [got EXCEPT ![f] = NoOutcome]
       /\ st' = IF next = c
                THEN [st EXCEPT ![f] = "awaiting", ![c] = "running"]
                ELSE [st EXCEPT ![f] = "resuming"]
       /\ cur' = [cur EXCEPT ![t] = next]
    /\ UNCHANGED <<owner, inflight, plan, suspends, trivialT,
                   mpc, m, done, syncOut, spurious, bodyOut>>
    /\ vpromise' = [vpromise EXCEPT ![c].continuation = f]
    /\ vgot' = [vgot EXCEPT ![f] = NoOutcome]
    /\ UNCHANGED <<vplan, vdone, vsyncOut>>
    /\ UNCHANGED lifeVars
    /\ UNCHANGED notTaskVars

\* co_await c, with c already resolved: await_ready() is true, no suspension
BodyAwaitReady(t, f, c) ==
    /\ Running(t, f)
    /\ owner[c] = f
    /\ st[c] = "final"
    /\ await_ready(c)
    /\ awaiting' = [awaiting EXCEPT ![f] = c]
    /\ got' = [got EXCEPT ![f] = NoOutcome]
    /\ st' = [st EXCEPT ![f] = "resuming"]
    /\ hist' = [hist EXCEPT ![c].awaits = Count2(@)]
    /\ UNCHANGED <<promise, owner, inflight, cur, plan, suspends, trivialT,
                   mpc, m, done, syncOut, spurious, bodyOut>>
    /\ vgot' = [vgot EXCEPT ![f] = NoOutcome]
    /\ UNCHANGED <<vpromise, vplan, vdone, vsyncOut>>
    /\ UNCHANGED lifeVars
    /\ UNCHANGED notTaskVars

\* What await_resume() produces on a Task that holds no coroutine:
\* _coro.promise() on a null handle is undefined, the read sees whatever lies
\* at that address or the program dies.
await_resume_no_coro == {Val(Garbage), Crashed}

\* co_await on a Task object c that holds no coroutine (default-constructed,
\* or moved from): await_ready() is true, so await_resume() follows at once
BodyAwaitNoCoro(t, f, c) ==
    /\ Running(t, f)
    /\ st[c] = "none"
    /\ await_ready(c)
    /\ ub = "none"
    /\ ub' = "null_promise"
    /\ awaiting' = [awaiting EXCEPT ![f] = c]
    /\ \E o \in await_resume_no_coro :
          /\ got' = [got EXCEPT ![f] = o]
          /\ st' = [st EXCEPT ![f] = IF o = Crashed THEN "crashed" ELSE "running"]
    /\ UNCHANGED <<promise, owner, inflight, cur, plan, suspends, trivialT,
                   mpc, m, done, syncOut, spurious, bodyOut, hist>>
    /\ UNCHANGED voidVars
    /\ UNCHANGED <<taskCoro, calls>>
    /\ UNCHANGED notTaskVars

\* the body resumes after co_await: Task::await_resume on the awaited Task
AwaitResumeStep(t, f) ==
    /\ cur[t] = f /\ f # Null /\ st[f] = "resuming"
    /\ LET c == awaiting[f] IN
       \E o \in await_resume(promise[c]) :
          /\ got' = [got EXCEPT ![f] = o]
          /\ promise' = [promise EXCEPT ![c] = MovedFrom(promise[c])]
          /\ hist' = [hist EXCEPT ![c].reads = Count2(@),
                                  ![c].firstRead = IF hist[c].reads = 0 THEN o ELSE @,
                                  ![c].raised = IF o.kind = "err" THEN Count2(@) ELSE @]
          /\ IF o.kind = "err"
             THEN /\ st' = [st EXCEPT ![f] = "raised"]
                  /\ inflight' = [inflight EXCEPT ![f] = o.val]
             ELSE /\ st' = [st EXCEPT ![f] = "running"]
                  /\ UNCHANGED inflight
    /\ UNCHANGED <<owner, awaiting, cur, plan, suspends, trivialT,
                   mpc, m, done, syncOut, spurious, bodyOut>>
    /\ \E vo \in void_await_resume(vpromise[awaiting[f]]) :
          vgot' = [vgot EXCEPT ![f] = vo]
    /\ UNCHANGED <<vpromise, vplan, vdone, vsyncOut>>
    /\ UNCHANGED lifeVars
    /\ UNCHANGED notTaskVars

\* the body awaits something that suspends it and is resumed from elsewhere
BodySuspend(t, f) ==
    /\ Running(t, f)
    /\ suspends < MaxSuspends
    /\ suspends' = suspends + 1
    /\ st' = [st EXCEPT ![f] = "susp"]
    /\ cur' = [cur EXCEPT ![t] = Null]
    /\ UNCHANGED <<promise, owner, awaiting, got, inflight, plan, trivialT,
                   mpc, m, done, syncOut, spurious, bodyOut, hist>>
    /\ UNCHANGED voidVars
    /\ UNCHANGED lifeVars
    /\ UNCHANGED notTaskVars

\* co_return v: return_value, then final_suspend
BodyReturn(t, f, v) ==
    /\ Running(t, f)
    /\ promise' = [promise EXCEPT ![f] = return_value(promise[f], v)]
    /\ bodyOut' = [bodyOut EXCEPT ![f] = Val(v)]
    /\ st' = [st EXCEPT ![f] = "final"]
    /\ plan' = [plan EXCEPT ![t] = final_await_suspend(promise[f])]
    /\ UNCHANGED <<owner, awaiting, got, inflight, cur, suspends, trivialT,
                   mpc, m, done, syncOut, spurious, hist>>
    /\ vpromise' = [vpromise EXCEPT ![f] = return_void(vpromise[f])]
    /\ vplan' = [vplan EXCEPT ![t] = void_final_await_suspend(vpromise[f])]
    /\ UNCHANGED <<vdone, vgot, vsyncOut>>
    /\ UNCHANGED lifeVars
    /\ UNCHANGED notTaskVars

\* the body throws
BodyThrow(t, f, e) ==
    /\ Running(t, f)
    /\ st' = [st EXCEPT ![f] = "raised"]
    /\ inflight' = [inflight EXCEPT ![f] = e]
    /\ UNCHANGED <<promise, owner, awaiting, got, cur, plan, suspends, trivialT,
                   mpc, m, done, syncOut, spurious, bodyOut, hist>>
    /\ UNCHANGED voidVars
    /\ UNCHANGED lifeVars
    /\ UNCHANGED notTaskVars

\* a try/catch of the body handles the exception
BodyCatch(t, f) ==
    /\ cur[t] = f /\ f # Null /\ st[f] = "raised"
    /\ st' = [st EXCEPT ![f] = "running"]
    /\ inflight' = [inflight EXCEPT ![f] = NoExc]
    /\ UNCHANGED <<promise, owner, awaiting, got, cur, plan, suspends, trivialT,
                   mpc, m, done, syncOut, spurious, bodyOut, hist>>
    /\ UNCHANGED voidVars
    /\ UNCHANGED lifeVars
    /\ UNCHANGED notTaskVars

\* the exception leaves the body: unhandled_exception, then final_suspend
BodyUnhandled(t, f) ==
    /\ cur[t] = f /\ f # Null /\ st[f] = "raised"
    /\ promise' = [promise EXCEPT ![f] = unhandled_exception(promise[f], inflight[f])]
    /\ bodyOut' = [bodyOut EXCEPT ![f] = Err(inflight[f])]
    /\ inflight' = [inflight EXCEPT ![f] = NoExc]
    /\ st' = [st EXCEPT ![f] = "final"]
    /\ plan' = [plan EXCEPT ![t] = final_await_suspend(promise[f])]
    /\ UNCHANGED <<owner, awaiting, got, cur, suspends, trivialT,
                   mpc, m, done, syncOut, spurious, hist>>
    /\ vpromise' = [vpromise EXCEPT ![f] = void_unhandled_exception(vpromise[f], inflight[f])]
    /\ vplan' = [vplan EXCEPT ![t] = void_final_await_suspend(vpromise[f])]
    /\ UNCHANGED <<vdone, vgot, vsyncOut>>
    /\ UNCHANGED lifeVars
    /\ UNCHANGED notTaskVars

AtFinal(t, f, step) ==
    /\ cur[t] = f /\ f # Null /\ st[f] = "final"
    /\ plan[t] # <<>> /\ Head(plan[t]) = step

\* on_completed: lock m, done = true, unlock
FinalSetDone(t, f) ==
    /\ AtFinal(t, f, "set_done")
    /\ m = "free"
    /\ done' = TRUE
    /\ plan' = [plan EXCEPT ![t] = Tail(@)]
    /\ hist' = [hist EXCEPT ![f].notify = @ + 1,
                            ![f].notifyStored = Resolved(promise[f])]
    /\ UNCHANGED <<st, promise, owner, awaiting, got, inflight, cur, suspends,
                   trivialT, mpc, m, syncOut, spurious, bodyOut>>
    /\ vplan' = [vplan EXCEPT ![t] = void_final_step(vplan[t], vdone).plan]
    /\ vdone' = void_final_step(vplan[t], vdone).done
    /\ UNCHANGED <<vpromise, vgot, vsyncOut>>
    /\ UNCHANGED lifeVars
    /\ UNCHANGED notTaskVars

\* on_completed: cv.notify_one()
FinalNotifyOne(t, f) ==
    /\ AtFinal(t, f, "notify_one")
    /\ mpc' = IF mpc = "waiting" THEN "relock" ELSE mpc
    /\ plan' = [plan EXCEPT ![t] = Tail(@)]
    /\ hist' = [hist EXCEPT ![f].woke = (mpc = "waiting")]
    /\ UNCHANGED <<st, promise, owner, awaiting, got, inflight, cur, suspends,
                   trivialT, m, done, syncOut, spurious, bodyOut>>
    /\ vplan' = [vplan EXCEPT ![t] = void_final_step(vplan[t], vdone).plan]
    /\ vdone' = void_final_step(vplan[t], vdone).done
    /\ UNCHANGED <<vpromise, vgot, vsyncOut>>
    /\ UNCHANGED lifeVars
    /\ UNCHANGED notTaskVars

\* return continuation ? continuation : std::noop_coroutine()
FinalTransfer(t, f) ==
    /\ AtFinal(t, f, "transfer")
    /\ LET k == promise[f].continuation IN
       /\ cur' = [cur EXCEPT ![t] = k]
       /\ st' = IF k # Null THEN [st EXCEPT ![k] = "resuming"] ELSE st
       /\ hist' = [hist EXCEPT
              ![f].left = TRUE,
              ![f].transfers = IF k # Null THEN @ + 1 ELSE @,
              ![f].transferAfterNotify =
                  (promise[f].on_completed => hist[f].notify > 0
                                              /\ "notify_one" \notin
                                                 {plan[t][i] : i \in 1..Len(plan[t])}),
              ![f].transferResolved = Resolved(promise[f])]
    /\ plan' = [plan EXCEPT ![t] = <<>>]
    /\ UNCHANGED <<promise, owner, awaiting, got, inflight, suspends, trivialT,
                   mpc, m, done, syncOut, spurious, bodyOut>>
    /\ vplan' = [vplan EXCEPT ![t] = void_final_step(vplan[t], vdone).plan]
    /\ vdone' = void_final_step(vplan[t], vdone).done
    /\ UNCHANGED <<vpromise, vgot, vsyncOut>>
    /\ UNCHANGED lifeVars
    /\ UNCHANGED notTaskVars

\* another thread resumes a coroutine that suspended itself
BgResume(f) ==
    /\ cur["bg"] = Null
    /\ st[f] = "susp"
    /\ st' = [st EXCEPT ![f] = "running"]
    /\ cur' = [cur EXCEPT !["bg"] = f]
    /\ UNCHANGED <<promise, owner, awaiting, got, inflight, plan, suspends, trivialT,
                   mpc, m, done, syncOut, spurious, bodyOut, hist>>
    /\ UNCHANGED voidVars
    /\ UNCHANGED lifeVars
    /\ UNCHANGED notTaskVars

----------------------------------------------------------------------------
(***************************************************************************)
(* Task<T>::get_sync, called by blockingWait on the main thread            *)
(***************************************************************************)
\* _coro.promise().on_completed = [&]{ ... }
GetSyncArm ==
    /\ mpc = "start"
    /\ get_sync_valid(taskCoro)
    /\ promise' = [promise EXCEPT ![Root].on_completed = TRUE]
    /\ mpc' = "armed"
    /\ UNCHANGED <<st, owner, awaiting, got, inflight, cur, plan, suspends, trivialT,
                   m, done, syncOut, spurious, bodyOut, hist>>
    /\ vpromise' = [vpromise EXCEPT ![Root].on_completed = TRUE]
    /\ UNCHANGED <<vplan, vdone, vgot, vsyncOut>>
    /\ UNCHANGED lifeVars
    /\ UNCHANGED notTaskVars

\* get_sync on a Task that holds no coroutine: the first statement throws
GetSyncInvalid ==
    /\ mpc = "start"
    /\ ~get_sync_valid(taskCoro)
    /\ syncOut' = Err(InvalidTask)
    /\ vsyncOut' = Err(InvalidTask)
    /\ mpc' = "returned"
    /\ UNCHANGED <<st, promise, owner, awaiting, got, inflight, cur, plan, suspends,
                   trivialT, m, done, spurious, bodyOut, hist>>
    /\ UNCHANGED <<vpromise, vplan, vdone, vgot>>
    /\ UNCHANGED lifeVars
    /\ UNCHANGED notTaskVars

\* the holder moves its Task into another Task object, between two calls
TaskMoveFrom ==
    /\ mpc \in {"start", "returned"}
    /\ taskCoro # Null
    /\ taskCoro' = moved_from(taskCoro)
    /\ UNCHANGED <<st, promise, owner, awaiting, got, inflight, cur, plan, suspends,
                   trivialT, mpc, m, done, syncOut, spurious, bodyOut, hist>>
    /\ UNCHANGED voidVars
    /\ UNCHANGED <<calls, ub>>
    /\ UNCHANGED notTaskVars

\* get_sync is called again on the same Task object: new locals m, cv, done
GetSyncAgain ==
    /\ mpc = "returned"
    /\ calls < MaxCalls
    /\ calls' = calls + 1
    /\ mpc' = "start"
    /\ done' = FALSE
    /\ vdone' = FALSE
    /\ syncOut' = NoOutcome
    /\ vsyncOut' = NoOutcome
    /\ UNCHANGED <<st, promise, owner, awaiting, got, inflight, cur, plan, suspends,
                   trivialT, m, spurious, bodyOut, hist>>
    /\ UNCHANGED <<vpromise, vplan, vgot>>
    /\ UNCHANGED <<taskCoro, ub>>
    /\ UNCHANGED notTaskVars

\* _coro.resume()
GetSyncResume ==
    /\ mpc = "armed"
    /\ st[Root] = "init"
    /\ st' = [st EXCEPT ![Root] = "running"]
    /\ cur' = [cur EXCEPT !["main"] = Root]
    /\ mpc' = "driving"
    /\ UNCHANGED <<promise, owner, awaiting, got, inflight, plan, suspends, trivialT,
                   m, done, syncOut, spurious, bodyOut, hist>>
    /\ UNCHANGED voidVars
    /\ UNCHANGED lifeVars
    /\ UNCHANGED notTaskVars

\* What _coro.resume() does on a frame suspended at its final suspension
\* point. It is undefined: the call finds no resume function and the program
\* dies, or it comes back having done nothing.
resume_done == {"crashed", "driving"}

\* _coro.resume(), on a Task that is already resolved
GetSyncResumeDone ==
    /\ mpc = "armed"
    /\ st[Root] = "final"
    /\ ub' = "resume_done"
    /\ mpc' \in resume_done
    /\ UNCHANGED <<st, promise, owner, awaiting, got, inflight, cur, plan, suspends,
                   trivialT, m, done, syncOut, spurious, bodyOut, hist>>
    /\ UNCHANGED voidVars
    /\ UNCHANGED <<taskCoro, calls>>
    /\ UNCHANGED notTaskVars

\* resume() has returned: std::unique_lock<std::mutex> lk(m)
GetSyncLock ==
    /\ mpc \in {"driving", "relock"}
    /\ cur["main"] = Null
    /\ m = "free"
    /\ m' = "held"
    /\ mpc' = "locked"
    /\ UNCHANGED <<st, promise, owner, awaiting, got, inflight, cur, plan, suspends,
                   trivialT, done, syncOut, spurious, bodyOut, hist>>
    /\ UNCHANGED voidVars
    /\ UNCHANGED lifeVars
    /\ UNCHANGED notTaskVars

\* cv.wait(lk, pred): leave when pred holds, else release m and block
GetSyncWait ==
    /\ mpc = "locked"
    /\ IF get_sync_wait_pred
       THEN mpc' = "read" /\ UNCHANGED m
       ELSE mpc' = "waiting" /\ m' = "free"
    /\ UNCHANGED <<st, promise, owner, awaiting, got, inflight, cur, plan, suspends,
                   trivialT, done, syncOut, spurious, bodyOut, hist>>
    /\ UNCHANGED voidVars
    /\ UNCHANGED lifeVars
    /\ UNCHANGED notTaskVars

\* a condition variable may wake without a notification
GetSyncSpurious ==
    /\ mpc = "waiting"
    /\ spurious < MaxSpurious
    /\ spurious' = spurious + 1
    /\ mpc' = "relock"
    /\ UNCHANGED <<st, promise, owner, awaiting, got, inflight, cur, plan, suspends,
                   trivialT, m, done, syncOut, bodyOut, hist>>
    /\ UNCHANGED voidVars
    /\ UNCHANGED lifeVars
    /\ UNCHANGED notTaskVars

\* rethrow the stored exception, else return std::move(*result)
GetSyncRead ==
    /\ mpc = "read"
    /\ \E o \in await_resume(promise[Root]) :
          /\ syncOut' = o
          /\ promise' = [promise EXCEPT ![Root] = MovedFrom(promise[Root])]
          /\ hist' = [hist EXCEPT ![Root].reads = Count2(@),
                                  ![Root].firstRead = IF hist[Root].reads = 0 THEN o ELSE @,
                                  ![Root].raised = IF o.kind = "err" THEN Count2(@) ELSE @]
    /\ m' = "free"
    /\ mpc' = "returned"
    /\ UNCHANGED <<st, owner, awaiting, got, inflight, cur, plan, suspends, trivialT,
                   done, spurious, bodyOut>>
    /\ \E vo \in void_await_resume(vpromise[Root]) : vsyncOut' = vo
    /\ UNCHANGED <<vpromise, vplan, vdone, vgot>>
    /\ UNCHANGED lifeVars
    /\ UNCHANGED notTaskVars

----------------------------------------------------------------------------
MainNext ==
    \/ GetSyncArm
    \/ GetSyncResume
    \/ GetSyncLock
    \/ GetSyncWait
    \/ GetSyncRead

CoroStep(t) ==
    \/ \E f \in Frames, c \in 1..ChainDepth : BodyCreate(t, f, c)
    \/ \E f \in Frames, c \in Frames : BodyAwait(t, f, c)
    \/ \E f \in Frames, c \in Frames : BodyAwaitReady(t, f, c)
    \/ \E f \in Frames : AwaitResumeStep(t, f)
    \/ \E f \in Frames : BodySuspend(t, f)
    \/ \E f \in Frames, v \in Values : BodyReturn(t, f, v)
    \/ \E f \in Frames, e \in Errors : BodyThrow(t, f, e)
    \/ \E f \in Frames : BodyCatch(t, f)
    \/ \E f \in Frames : BodyUnhandled(t, f)
    \/ \E f \in Frames : FinalSetDone(t, f)
    \/ \E f \in Frames : FinalNotifyOne(t, f)
    \/ \E f \in Frames : FinalTransfer(t, f)

TaskNext ==
    \/ MainNext
    \/ \E t \in Threads : CoroStep(t)
    \/ \E f \in Frames : BgResume(f)
    \/ GetSyncSpurious

Next == TaskNext

Spec == Init /\ [][Next]_vars

\* the same, with a holder that calls get_sync more than once and moves
\* its Task
LifeNext ==
    \/ TaskNext
    \/ GetSyncInvalid
    \/ TaskMoveFrom
    \/ GetSyncAgain
    \/ GetSyncResumeDone

LifeSpec == Init /\ [][LifeNext]_vars

\* the same as Spec, with bodies that let the Tasks they created go out of
\* scope, awaited or not
LazyNext ==
    \/ TaskNext
    \/ \E t \in Threads, f \in Frames, c \in Frames : BodyDrop(t, f, c)

LazySpec == Init /\ [][LazyNext]_vars

\* the same as Spec, with bodies that co_await a Task object holding no
\* coroutine (one of those the chain never creates a frame for)
NoCoroNext ==
    \/ TaskNext
    \/ \E t \in Threads, f \in Frames, c \in Frames \ (1..ChainDepth) :
          BodyAwaitNoCoro(t, f, c)

NoCoroSpec == Init /\ [][NoCoroNext]_vars

----------------------------------------------------------------------------
(***************************************************************************)
(* generateContentInParallel (examples/coroutine_example.cpp): the root    *)
(* creates one Task per prompt, then awaits them in the order of creation, *)
(* then returns; each chat Task may wait for something resumed from        *)
(* another thread, return or fail.                                         *)
(***************************************************************************)
Chats == Frames \ {Root}

AllCreated == \A c \in Chats : st[c] # "none"
NoneAwaited == \A c \in Chats : hist[c].awaits = 0
AllRead == \A c \in Chats : hist[c].reads > 0

\* auto intro_task = context->chat(intro_prompt); ...
ParCreate(t, c) == NoneAwaited /\ BodyCreate(t, Root, c)

\* auto intro_response = co_await std::move(intro_task); ...
ParAwait(t, c) ==
    /\ AllCreated
    /\ hist[c].awaits = 0
    /\ \A d \in Chats : d < c => hist[d].awaits > 0
    /\ BodyAwait(t, Root, c)

\* co_return result;
ParReturn(t, v) == AllRead /\ BodyReturn(t, Root, v)

ParNext ==
    \/ MainNext
    \/ \E t \in Threads, c \in Chats : ParCreate(t, c)
    \/ \E t \in Threads, c \in Chats : ParAwait(t, c)
    \/ \E t \in Threads : AwaitResumeStep(t, Root)
    \/ \E t \in Threads, v \in Values : ParReturn(t, v)
    \/ \E t \in Threads, c \in Chats : BodySuspend(t, c)
    \/ \E c \in Chats : BgResume(c)
    \/ \E t \in Threads, c \in Chats, v \in Values : BodyReturn(t, c, v)
    \/ \E t \in Threads, c \in Chats, e \in Errors : BodyThrow(t, c, e)
    \/ \E t \in Threads, f \in Frames : BodyUnhandled(t, f)
    \/ \E t \in Threads, f \in Frames : FinalSetDone(t, f)
    \/ \E t \in Threads, f \in Frames : FinalNotifyOne(t, f)
    \/ \E t \in Threads, f \in Frames : FinalTransfer(t, f)

ParSpec == Init /\ [][ParNext]_vars

\* Each thread that can take a step eventually takes one; a suspended
\* coroutine is eventually resumed; a spurious wakeup is never owed.
FairSpec ==
    /\ Init /\ [][Next]_vars
    /\ WF_vars(MainNext)
    /\ \A t \in Threads : WF_vars(CoroStep(t))
    /\ WF_vars(\E f \in Frames : BgResume(f))

----------------------------------------------------------------------------
(***************************************************************************)
(* AsyncGenerator<T>, next(), collectAllFromGenerator / collectAll         *)
(***************************************************************************)
BoundedSeq(S, n) == UNION {[1..k -> S] : k \in 0..n}

\* a generator was created (its frame is suspended at initial_suspend) and
\* handed to a consumer
InitGen ==
    /\ gsrc \in BoundedSeq(Values, MaxYield)
    /\ gend \in {"return", "throw"}
    /\ gen = [st |-> "init", pos |-> 0, current |-> Empty, exception |-> NoExc]
    /\ nst = "none" /\ np = NewPromise
    /\ mode \in {"collect", "pull"}
    /\ cpc = "loop"
    /\ item = NoOutcome /\ results = <<>> /\ collectOut = NoOutcome
    /\ pulls = 0 /\ nready = 0
    /\ ghist = [resumes |-> 0, terminals |-> 0, termSeen |-> FALSE,
                lateResumes |-> 0, lateValue |-> FALSE, threwIn |-> 0,
                pending |-> FALSE, overwritten |-> FALSE, ahead |-> FALSE]

\* yield_value(T value) { current = std::move(value); return {}; }
yield_value(g, v) == [g EXCEPT !.current = v, !.st = "yielded", !.pos = @ + 1]

gen_resume_past_yield(g) ==
    IF g.pos + 1 < Len(gsrc) THEN yield_value(yield_value(g, gsrc[g.pos + 1]), gsrc[g.pos + 2])
    ELSE IF g.pos < Len(gsrc) THEN yield_value(g, gsrc[g.pos + 1])
    ELSE IF gend = "return" THEN [g EXCEPT !.st = "final"]
    ELSE [g EXCEPT !.st = "final", !.exception = "boom"]
\* _coro.resume() on the generator frame: the stream body runs to its next
\* co_yield, where yield_value returns std::suspend_always, to its end
\* (return_void, final_suspend) or until it throws (unhandled_exception,
\* final_suspend)
gen_resume(g) ==
    IF g.pos < Len(gsrc) THEN yield_value(g, gsrc[g.pos + 1])
    ELSE IF gend = "return" THEN [g EXCEPT !.st = "final"]
    ELSE [g EXCEPT !.st = "final", !.exception = "boom"]

\* _coro.done()
gen_done(g) == g.st = "final"

next_after_resume_done_first(g) ==
    IF gen_done(g) THEN "nullopt"
    ELSE IF g.exception # NoExc THEN "rethrow" ELSE "value"
\* next(), after resume(): the tests in the order of the code, first
\* if (_coro.promise().exception), then if (_coro.done())
next_after_resume(g) ==
    IF g.exception # NoExc THEN "rethrow"
    ELSE IF gen_done(g) THEN "nullopt" ELSE "value"

MovedCurrent_reset(g) == [g EXCEPT !.current = Empty]
\* the slot `current` after std::move(_coro.promise().current)
MovedCurrent(g) == IF trivialT THEN g ELSE [g EXCEPT !.current = Moved]

\* auto item = co_await generator.next(): the Task is created and, not being
\* ready, resumed by await_suspend
CallNext ==
    /\ cpc = "loop"
    /\ pulls + nready < MaxPulls
    /\ pulls' = pulls + 1
    /\ np' = [NewPromise EXCEPT !.continuation = 1]
    /\ nst' = "running"
    /\ cpc' = "awaiting"
    /\ UNCHANGED <<gsrc, gend, gen, mode, item, results, collectOut, nready, ghist>>
    /\ UNCHANGED notGenVars

\* next(): if (!_coro || _coro.done()) co_return std::nullopt;
NextFinished ==
    /\ nst = "running"
    /\ gen_done(gen)
    /\ np' = return_value(np, Nullopt)
    /\ nst' = "final"
    /\ UNCHANGED <<gsrc, gend, gen, mode, cpc, item, results, collectOut, pulls, nready, ghist>>
    /\ UNCHANGED notGenVars

\* next(): _coro.resume();
NextResumeGen ==
    /\ nst = "running"
    /\ ~gen_done(gen)
    /\ gen' = gen_resume(gen)
    /\ nst' = "resumed"
    /\ ghist' = [ghist EXCEPT !.resumes = @ + 1,
                              !.lateResumes = IF ghist.termSeen THEN @ + 1 ELSE @,
                              !.threwIn = IF gen_resume(gen).exception # NoExc
                                          THEN pulls ELSE @,
                              !.pending = @ \/ gen_resume(gen).st = "yielded",
                              !.overwritten = @ \/ (ghist.pending
                                                    /\ gen_resume(gen).st = "yielded")]
    /\ UNCHANGED <<gsrc, gend, np, mode, cpc, item, results, collectOut, pulls, nready>>
    /\ UNCHANGED notGenVars

\* next(), after resume(): rethrow the body's exception (it lands in this
\* Task's promise), co_return std::nullopt when the body is done, else
\* co_return std::move(current)
NextAfterResume ==
    /\ nst = "resumed"
    /\ IF next_after_resume(gen) = "rethrow"
       THEN np' = unhandled_exception(np, gen.exception) /\ UNCHANGED gen
       ELSE IF next_after_resume(gen) = "nullopt"
       THEN np' = return_value(np, Nullopt) /\ UNCHANGED gen
       ELSE np' = return_value(np, gen.current) /\ gen' = MovedCurrent(gen)
    /\ ghist' = [ghist EXCEPT !.pending = @ /\ next_after_resume(gen) # "value"]
    /\ nst' = "final"
    /\ UNCHANGED <<gsrc, gend, mode, cpc, item, results, collectOut, pulls, nready>>
    /\ UNCHANGED notGenVars

\* the Task of next() is at its final suspension point: its final_awaiter
\* resumes the consumer, whose co_await evaluates await_resume()
ConsumerResume ==
    /\ nst = "final"
    /\ cpc = "awaiting"
    /\ \E o \in await_resume(np) :
          /\ item' = o
          /\ cpc' = IF o = Crashed THEN "crashed" ELSE "resumed"
          /\ ghist' = [ghist EXCEPT
                !.terminals = IF o = Val(Nullopt) THEN @ + 1 ELSE @,
                !.termSeen = @ \/ o = Val(Nullopt) \/ o.kind = "err",
                !.lateValue = @ \/ (ghist.termSeen /\ o # Val(Nullopt))]
    /\ nst' = "none"
    /\ UNCHANGED <<gsrc, gend, gen, np, mode, results, collectOut, pulls, nready>>
    /\ UNCHANGED notGenVars

collect_unwind_partial(it, res) == [kind |-> "val", val |-> res]
\* an exception raised by co_await generator.next() leaves the body of
\* collectAllFromGenerator, `results` with it: unhandled_exception stores it
\* in the Task and get_sync, called by blockingWait, rethrows it
collect_unwind(it, res) == it

\* collectAllFromGenerator: if (!item) break; results.push_back(*item);
\* an exception from co_await leaves the coroutine and get_sync rethrows it
collectAllFromGenerator ==
    /\ mode = "collect"
    /\ cpc = "resumed"
    /\ IF item.kind = "err"
       THEN /\ collectOut' = collect_unwind(item, results)
            /\ cpc' = "done"
            /\ UNCHANGED results
       ELSE IF item = Val(Nullopt)
       THEN /\ collectOut' = [kind |-> "val", val |-> results]
            /\ cpc' = "done"
            /\ UNCHANGED results
       ELSE /\ results' = Append(results, item.val)
            /\ cpc' = "loop"
            /\ UNCHANGED collectOut
    /\ UNCHANGED <<gsrc, gend, gen, nst, np, mode, item, pulls, nready, ghist>>
    /\ UNCHANGED notGenVars

\* a consumer that keeps pulling: it handles each item, or the error, and
\* calls next() again
PullAgain ==
    /\ mode = "pull"
    /\ cpc = "resumed"
    /\ results' = IF item.kind = "val" /\ item # Val(Nullopt)
                  THEN Append(results, item.val) ELSE results
    /\ cpc' = "loop"
    /\ UNCHANGED <<gsrc, gend, gen, nst, np, mode, item, collectOut, pulls, nready, ghist>>
    /\ UNCHANGED notGenVars

\* auto t = generator.next(): the Task of next() is created suspended at
\* initial_suspend; nothing of next() runs, the generator is not touched
CreateNext ==
    /\ mode = "pull"
    /\ cpc = "loop"
    /\ pulls + nready < MaxPulls
    /\ nready' = nready + 1
    /\ ghist' = [ghist EXCEPT !.ahead = @ \/ nready >= 1]
    /\ UNCHANGED <<gsrc, gend, gen, nst, np, mode, cpc, item, results, collectOut, pulls>>
    /\ UNCHANGED notGenVars

\* co_await t, for one of the Tasks created earlier, whichever: not being
\* ready, it is resumed by await_suspend
AwaitCreated ==
    /\ mode = "pull"
    /\ cpc = "loop"
    /\ nready > 0
    /\ nready' = nready - 1
    /\ pulls' = pulls + 1
    /\ np' = [NewPromise EXCEPT !.continuation = 1]
    /\ nst' = "running"
    /\ cpc' = "awaiting"
    /\ UNCHANGED <<gsrc, gend, gen, mode, item, results, collectOut, ghist>>
    /\ UNCHANGED notGenVars

GenNext ==
    \/ CallNext
    \/ NextFinished
    \/ NextResumeGen
    \/ NextAfterResume
    \/ ConsumerResume
    \/ collectAllFromGenerator
    \/ PullAgain
    \/ CreateNext
    \/ AwaitCreated

GenInit == InitTask /\ InitGen /\ InitActor /\ InitExec /\ InitOwn /\ InitNest

GenSpec == GenInit /\ [][GenNext]_vars

----------------------------------------------------------------------------
(***************************************************************************)
(* ActorAgent: inbound queue, worker loop, stop, feedback slot.            *)
(* The header declares the members; the loop itself follows the design     *)
(* description of the worker (spec.md, sections 3, 4.4 and 7).             *)
(***************************************************************************)
Tasks == 1..MaxTasks
Texts == {"yes", "no"}

queue_front_newest(q) == q[Len(q)]
\* std::queue<String> inbound_tasks_: front() is the oldest element
queue_front(q) == Head(q)
queue_pop_all(q) == <<>>
\* std::queue: pop() removes the oldest element
queue_pop(q) == Tail(q)
\* std::queue: push() appends
queue_push(q, x) == Append(q, x)

Range(q) == {q[i] : i \in 1..Len(q)}

\* enum class State
State == {"READY", "RUNNING", "WAITING", "COMPLETED", "FAILED", "STOPPED"}

\* the state machine of an agent instance: READY -> RUNNING -> {WAITING ->
\* RUNNING} -> COMPLETED | FAILED, and STOPPED from any non-terminal state
StateMachine ==
    {<<"READY", "RUNNING">>, <<"RUNNING", "WAITING">>, <<"WAITING", "RUNNING">>,
     <<"RUNNING", "COMPLETED">>, <<"RUNNING", "FAILED">>}
    \cup {<<s, "STOPPED">> : s \in {"READY", "RUNNING", "WAITING"}}

setState_assign(from, to) == to
\* setState(state): the agent state moves along its state machine
setState(from, to) == IF <<from, to>> \in StateMachine THEN to ELSE from

\* the wait predicate of the worker: new item present or stop flag set
worker_wait_pred == inbound_tasks_ # <<>> \/ stop_flag_

on_wake_ignores_stop == FALSE
\* on wake: if the stop flag is set, exit
on_wake_exits == stop_flag_

after_failure_exit == "exited"
\* a failing task is reported and the loop goes on with its next iteration
after_failure == "top"

stop_aborts_step_in_flight(pc) ==
    IF pc \in {"processing", "parked"} THEN "exited" ELSE pc
\* stop() does not interrupt a step already in flight: the worker is where
\* it was
stop_effect_on_worker(pc) == pc

slot_reused(slot) == IF slot = "none" THEN "empty" ELSE slot
\* waitForFeedback creates a fresh slot, whatever the previous one holds
fresh_slot(slot) == "empty"

feedback_ready_always(slot) == TRUE
\* the parked wait resolves once provideFeedback has filled the slot
feedback_ready(slot) == slot \in Texts

\* submit(task): enqueue under the queue mutex, signal the condition variable
Submit ==
    /\ nsub < MaxTasks
    /\ queue_mutex_ = "free"
    /\ nsub' = nsub + 1
    /\ inbound_tasks_' = queue_push(inbound_tasks_, nsub + 1)
    /\ wpc' = IF wpc = "waiting" THEN "relock" ELSE wpc
    /\ ahist' = [ahist EXCEPT !.unheard =
                    IF @ = 0 /\ wpc \in {"top", "lock"} THEN nsub + 1 ELSE @]
    /\ UNCHANGED <<stop_flag_, queue_mutex_, feedback_promise_, state_, wcur, wasked, spc>>
    /\ UNCHANGED notActorVars

\* stop(): set the cooperative cancellation flag ...
Stop ==
    /\ spc = "idle"
    /\ stop_flag_' = TRUE
    /\ spc' = "flagged"
    /\ state_' = setState(state_, "STOPPED")
    /\ wpc' = stop_effect_on_worker(wpc)
    /\ ahist' = [ahist EXCEPT !.stopWhileWaiting =
                                 (wpc = "waiting" /\ inbound_tasks_ = <<>>),
                             !.stopInFlight = wcur]
    /\ UNCHANGED <<inbound_tasks_, queue_mutex_, feedback_promise_, wcur, wasked, nsub>>
    /\ UNCHANGED notActorVars

\* ... and wake the condition variable
StopNotify ==
    /\ spc = "flagged"
    /\ spc' = "notified"
    /\ wpc' = IF wpc = "waiting" THEN "relock" ELSE wpc
    /\ UNCHANGED <<inbound_tasks_, stop_flag_, queue_mutex_, feedback_promise_, state_,
                   wcur, wasked, nsub, ahist>>
    /\ UNCHANGED notActorVars

\* top of a loop iteration: the stop flag is checked
WorkerTop ==
    /\ wpc = "top"
    /\ wpc' = IF stop_flag_ THEN "exited" ELSE "lock"
    /\ UNCHANGED <<inbound_tasks_, stop_flag_, queue_mutex_, feedback_promise_, state_,
                   wcur, wasked, spc, nsub, ahist>>
    /\ UNCHANGED notActorVars

\* the worker takes the queue mutex, at first or when leaving the wait
WorkerLock ==
    /\ wpc \in {"lock", "relock", "timedout"}
    /\ queue_mutex_ = "free"
    /\ queue_mutex_' = "worker"
    /\ wpc' = IF wpc = "timedout" THEN "woke" ELSE "pred"
    /\ UNCHANGED <<inbound_tasks_, stop_flag_, feedback_promise_, state_,
                   wcur, wasked, spc, nsub, ahist>>
    /\ UNCHANGED notActorVars

\* the wait on the condition variable tests its predicate
WorkerPred ==
    /\ wpc = "pred"
    /\ wpc' = IF worker_wait_pred THEN "woke" ELSE "block"
    /\ UNCHANGED <<inbound_tasks_, stop_flag_, queue_mutex_, feedback_promise_, state_,
                   wcur, wasked, spc, nsub, ahist>>
    /\ UNCHANGED notActorVars

\* the wait releases the mutex and blocks
WorkerBlock ==
    /\ wpc = "block"
    /\ wpc' = "waiting"
    /\ queue_mutex_' = "free"
    /\ UNCHANGED <<inbound_tasks_, stop_flag_, feedback_promise_, state_,
                   wcur, wasked, spc, nsub, ahist>>
    /\ UNCHANGED notActorVars

\* the poll interval run_interval_ms_ elapses
WorkerTimeout ==
    /\ wpc = "waiting"
    /\ wpc' = "timedout"
    /\ UNCHANGED <<inbound_tasks_, stop_flag_, queue_mutex_, feedback_promise_, state_,
                   wcur, wasked, spc, nsub, ahist>>
    /\ UNCHANGED notActorVars

\* on wake: if the stop flag is set, exit; else dequeue one item, FIFO
WorkerWoke ==
    /\ wpc = "woke"
    /\ queue_mutex_' = "free"
    /\ IF on_wake_exits
       THEN /\ wpc' = "exited"
            /\ UNCHANGED <<inbound_tasks_, wcur, wasked, state_, ahist>>
       ELSE IF inbound_tasks_ = <<>>
       THEN /\ wpc' = "top"
            /\ UNCHANGED <<inbound_tasks_, wcur, wasked, state_, ahist>>
       ELSE /\ wcur' = queue_front(inbound_tasks_)
            /\ inbound_tasks_' = queue_pop(inbound_tasks_)
            /\ wasked' = FALSE
            /\ state_' = setState(state_, "RUNNING")
            /\ wpc' = "processing"
            /\ ahist' = [ahist EXCEPT !.started = Append(@, queue_front(inbound_tasks_))]
    /\ UNCHANGED <<stop_flag_, feedback_promise_, spc, nsub>>
    /\ UNCHANGED notActorVars

\* the task's chain of steps runs to its end on the worker thread
WorkerFinish ==
    /\ wpc = "processing"
    /\ ahist' = [ahist EXCEPT !.finished = Append(@, wcur),
                             !.processed = Append(@, wcur),
                             !.given = "none", !.got = "none",
                             !.unheard = IF @ = wcur THEN MaxTasks + 1 ELSE @]
    /\ state_' = setState(state_, "COMPLETED")
    /\ wcur' = 0
    /\ wpc' = "top"
    /\ UNCHANGED <<inbound_tasks_, stop_flag_, queue_mutex_, feedback_promise_,
                   wasked, spc, nsub>>
    /\ UNCHANGED notActorVars

\* processing fails: the error is caught at the loop boundary and reported
\* through onError / the status callback
WorkerFail ==
    /\ wpc = "processing"
    /\ ahist' = [ahist EXCEPT !.errors = Append(@, wcur),
                             !.processed = Append(@, wcur),
                             !.subAtError = IF ahist.errors = <<>> THEN nsub ELSE @,
                             !.given = "none", !.got = "none",
                             !.unheard = IF @ = wcur THEN MaxTasks + 1 ELSE @]
    /\ state_' = setState(state_, "FAILED")
    /\ wcur' = 0
    /\ wpc' = after_failure
    /\ UNCHANGED <<inbound_tasks_, stop_flag_, queue_mutex_, feedback_promise_,
                   wasked, spc, nsub>>
    /\ UNCHANGED notActorVars

\* waitForFeedback(message, context): a fresh slot, then the computation parks
WaitForFeedback ==
    /\ wpc = "processing"
    /\ ~wasked
    /\ wasked' = TRUE
    /\ feedback_promise_' = fresh_slot(feedback_promise_)
    /\ state_' = setState(state_, "WAITING")
    /\ wpc' = "parked"
    /\ ahist' = [ahist EXCEPT !.given = "none", !.got = "none"]
    /\ UNCHANGED <<inbound_tasks_, stop_flag_, queue_mutex_, wcur, spc, nsub>>
    /\ UNCHANGED notActorVars

feedback_write_unconditional(slot, text) == text
\* provideFeedback writes the slot of the outstanding wait; with no wait
\* outstanding the write has no effect
feedback_write(slot, text) == IF slot = "empty" THEN text ELSE slot

\* provideFeedback(text): fills the slot of the outstanding wait; a call with
\* no wait outstanding is only recorded in the history (none, one, several)
ProvideFeedback(text) ==
    /\ feedback_promise_' = feedback_write(feedback_promise_, text)
    /\ ahist' = IF feedback_promise_ = "empty"
                THEN [ahist EXCEPT !.given = text]
                ELSE [ahist EXCEPT !.dropped = Count2(@)]
    /\ UNCHANGED <<inbound_tasks_, stop_flag_, queue_mutex_, state_,
                   wpc, wcur, wasked, spc, nsub>>
    /\ UNCHANGED notActorVars

\* the parked computation resumes with the text as resolved value; the slot
\* is consumed. History: firstText is "yes" from a first cycle resolved with
\* "yes" until the next cycle resumes
FeedbackResume ==
    /\ wpc = "parked"
    /\ feedback_ready(feedback_promise_)
    /\ ahist' = [ahist EXCEPT !.got = feedback_promise_,
                             !.firstText = IF @ = "none" /\ feedback_promise_ = "yes"
                                              THEN "yes" ELSE "spent"]
    /\ feedback_promise_' = "taken"
    /\ state_' = setState(state_, "RUNNING")
    /\ wpc' = "processing"
    /\ UNCHANGED <<inbound_tasks_, stop_flag_, queue_mutex_, wcur, wasked, spc, nsub>>
    /\ UNCHANGED notActorVars

WorkerNext ==
    \/ WorkerTop
    \/ WorkerLock
    \/ WorkerPred
    \/ WorkerBlock
    \/ WorkerTimeout
    \/ WorkerWoke
    \/ WorkerFinish
    \/ WorkerFail
    \/ WaitForFeedback
    \/ FeedbackResume

ActorNext ==
    \/ Submit
    \/ Stop
    \/ StopNotify
    \/ WorkerNext
    \/ \E text \in Texts : ProvideFeedback(text)

\* no Task is driven while the actor is exercised
ActorInit == InitTask /\ ~trivialT /\ IdleGen /\ InitActor /\ InitExec /\ InitOwn /\ InitNest

ActorSpec == ActorInit /\ [][ActorNext]_vars

\* The worker thread and the caller of stop() keep running, the poll
\* interval elapses, a step in flight ends: a task that is being processed
\* finishes or fails, and a parked wait receives its feedback.
ActorFairSpec ==
    /\ ActorInit /\ [][ActorNext]_vars
    /\ WF_vars(WorkerTop) /\ WF_vars(WorkerLock) /\ WF_vars(WorkerPred)
    /\ WF_vars(WorkerBlock) /\ WF_vars(WorkerTimeout) /\ WF_vars(WorkerWoke)
    /\ WF_vars(WorkerFinish \/ WorkerFail)
    /\ WF_vars(FeedbackResume)
    /\ WF_vars(StopNotify)
    /\ WF_vars(\E text \in Texts : feedback_promise_ = "empty" /\ ProvideFeedback(text))

----------------------------------------------------------------------------
(***************************************************************************)
(* Executor::add                                                           *)
(***************************************************************************)
Units == 1..MaxWork

\* the start function of a std::thread: when the callable returns the thread
\* ends; when an exception leaves it std::terminate ends the process
thread_exit(outcome) == IF outcome = "threw" THEN "terminated" ELSE "alive"

\* void add(F&& f) { std::thread(std::forward<F>(f)).detach(); }
\* a new thread starts running f; add returns at once, nothing is kept
ExecutorAdd(w) ==
    /\ process = "alive"
    /\ work[w] = "none"
    /\ \A u \in Units : u < w => work[u] # "none"
    /\ work' = [work EXCEPT ![w] = "running"]
    /\ UNCHANGED <<process, callerSteps>>
    /\ UNCHANGED notExecVars

\* the caller of add() goes on with its own code
CallerStep ==
    /\ process = "alive"
    /\ callerSteps < MaxCallerSteps
    /\ callerSteps' = callerSteps + 1
    /\ UNCHANGED <<work, process>>
    /\ UNCHANGED notExecVars

\* the work ends, by returning or by an exception that leaves it
WorkEnd(w, outcome) ==
    /\ process = "alive"
    /\ work[w] = "running"
    /\ work' = [work EXCEPT ![w] = outcome]
    /\ process' = thread_exit(outcome)
    /\ UNCHANGED callerSteps
    /\ UNCHANGED notExecVars

ExecNext ==
    \/ \E w \in Units : ExecutorAdd(w)
    \/ CallerStep
    \/ \E w \in Units, outcome \in {"returned", "threw"} : WorkEnd(w, outcome)

ExecSpec == Init /\ [][ExecNext]_vars

----------------------------------------------------------------------------
(***************************************************************************)
(* blockingWait called by the body of a Task that a blockingWait drives:   *)
(* two activations of get_sync, each with its locals m, cv and done        *)
(***************************************************************************)
Levels == {"outer", "inner"}

flag_of_shared(l) == "outer"
\* std::mutex m; std::condition_variable cv; bool done = false; and the
\* lambda [&] stored in on_completed: the activation whose locals the
\* completion of the Task of level l locks, sets and notifies
flag_of(l) == l

\* _coro.promise().on_completed = [&]{ ... }
NestArm(l) ==
    /\ nest[l].pc = "start"
    /\ nest' = [nest EXCEPT ![l].pc = "armed"]
    /\ UNCHANGED notNestVars

\* _coro.resume(): the body runs on the thread that called get_sync
NestResume(l) ==
    /\ nest[l].pc = "armed"
    /\ nest[l].st = "init"
    /\ nest' = [nest EXCEPT ![l].pc = "driving", ![l].st = "running", ![l].on = "caller"]
    /\ UNCHANGED notNestVars

\* the body of outer creates another Task and calls blockingWait on it:
\* the thread that runs the body enters get_sync of that Task
NestBlockingWait ==
    /\ nest["outer"].st = "running"
    /\ nest["inner"].pc = "idle"
    /\ nest' = [nest EXCEPT !["outer"].st = "blocked",
                            !["inner"].pc = "start", !["inner"].st = "init"]
    /\ UNCHANGED notNestVars

\* the body suspends itself; if the caller of get_sync was running it,
\* resume() returns to get_sync
NestBodySuspend(l) ==
    /\ nest[l].st = "running"
    /\ nest[l].susp < MaxSuspends
    /\ nest' = [nest EXCEPT ![l].st = "susp", ![l].susp = @ + 1, ![l].on = "none",
                            ![l].pc = IF nest[l].on = "caller" THEN "resumed" ELSE @]
    /\ UNCHANGED notNestVars

\* another thread resumes the suspended body
NestBgResume(l) ==
    /\ nest[l].st = "susp"
    /\ nest' = [nest EXCEPT ![l].st = "running", ![l].on = "bg"]
    /\ UNCHANGED notNestVars

\* co_return / unhandled_exception, final_suspend: the outcome is stored
\* and final_awaiter::await_suspend is about to call on_completed
NestBodyEnd(l, o) ==
    /\ nest[l].st = "running"
    /\ nest' = [nest EXCEPT ![l].st = "final", ![l].res = o,
                            ![l].fin = <<"set_done", "notify_one">>]
    /\ UNCHANGED notNestVars

\* on_completed: lock m, done = true, unlock
NestSetDone(l) ==
    /\ nest[l].st = "final"
    /\ nest[l].fin # <<>> /\ Head(nest[l].fin) = "set_done"
    /\ nest[flag_of(l)].m = "free"
    /\ nest' = [nest EXCEPT ![flag_of(l)].done = TRUE, ![l].fin = Tail(@)]
    /\ UNCHANGED notNestVars

\* on_completed: cv.notify_one(); there is no continuation, so the thread
\* leaves the frame: resume() returns to get_sync if the caller ran the body
NestNotifyOne(l) ==
    /\ nest[l].st = "final"
    /\ nest[l].fin # <<>> /\ Head(nest[l].fin) = "notify_one"
    /\ nest' = [nest EXCEPT
                  ![flag_of(l)].pc = IF @ = "waiting" THEN "relock" ELSE @,
                  ![l].fin = Tail(@),
                  ![l].on = "none",
                  ![l].pc = IF nest[l].on = "caller" THEN "resumed" ELSE @]
    /\ UNCHANGED notNestVars

\* std::unique_lock<std::mutex> lk(m)
NestLock(l) ==
    /\ nest[l].pc \in {"resumed", "relock"}
    /\ nest[l].m = "free"
    /\ nest' = [nest EXCEPT ![l].pc = "locked", ![l].m = "held"]
    /\ UNCHANGED notNestVars

\* cv.wait(lk, [&]{ return done; })
NestWait(l) ==
    /\ nest[l].pc = "locked"
    /\ nest' = IF nest[l].done
               THEN [nest EXCEPT ![l].pc = "read"]
               ELSE [nest EXCEPT ![l].pc = "waiting", ![l].m = "free"]
    /\ UNCHANGED notNestVars

\* a condition variable may wake without a notification
NestSpurious(l) ==
    /\ nest[l].pc = "waiting"
    /\ nest[l].spur < MaxSpurious
    /\ nest' = [nest EXCEPT ![l].pc = "relock", ![l].spur = @ + 1]
    /\ UNCHANGED notNestVars

\* rethrow the stored exception, else return the result: get_sync returns;
\* the inner one returns into the body of outer, which goes on
NestRead(l) ==
    /\ nest[l].pc = "read"
    /\ nest' = [nest EXCEPT
                  ![l].pc = "returned", ![l].m = "free", ![l].out = nest[l].res,
                  !["outer"].st = IF l = "inner" THEN "running" ELSE @]
    /\ UNCHANGED notNestVars

\* the thread in get_sync of level l
NestCaller(l) ==
    NestArm(l) \/ NestResume(l) \/ NestLock(l) \/ NestWait(l) \/ NestRead(l)

\* the thread that runs the body of level l
NestBody(l) ==
    \/ l = "outer" /\ NestBlockingWait
    \/ NestBodySuspend(l)
    \/ \E o \in {Val(v) : v \in Values} \cup {Err(e) : e \in Errors} : NestBodyEnd(l, o)
    \/ NestSetDone(l)
    \/ NestNotifyOne(l)

NestNext ==
    \E l \in Levels :
        NestCaller(l) \/ NestBody(l) \/ NestBgResume(l) \/ NestSpurious(l)

NestSpec == Init /\ [][NestNext]_vars

\* every thread that can take a step eventually takes one, a suspended body
\* is eventually resumed; a spurious wakeup is never owed
NestFairSpec ==
    /\ NestSpec
    /\ \A l \in Levels :
          WF_vars(NestCaller(l)) /\ WF_vars(NestBody(l)) /\ WF_vars(NestBgResume(l))

----------------------------------------------------------------------------
(***************************************************************************)
(* Ownership of coroutine frames by Task and AsyncGenerator objects:       *)
(* constructors, move constructor, move assignment, destructor             *)
(***************************************************************************)
Objects == 1..NumObjects
Owned == 1..NumOwned
Kinds == {"Task", "AsyncGenerator"}

\* if (_coro) _coro.destroy();
destroy(fr, h) == IF h = Null THEN fr ELSE [fr EXCEPT ![h].destroys = @ + 1]

\* operator=(X&& other): if (this != &other) { if (_coro) _coro.destroy();
\* _coro = std::exchange(other._coro, {}); } - the objects and the frames
\* after the assignment
move_assign(ob, fr, o, other) ==
    IF o # other
    THEN <<[ob EXCEPT ![other].coro = moved_from(ob[other].coro),
                      ![o].coro = ob[other].coro],
           destroy(fr, ob[o].coro)>>
    ELSE <<ob, fr>>

\* get_return_object(): X{handle_type::from_promise(*this)} - a call of a
\* coroutine function allocates a frame and returns the object holding it
OwnCreate(o, f, k) ==
    /\ object[o].life = "unborn"
    /\ frame[f].kind = "none"
    /\ \A g \in Owned : g < f => frame[g].kind # "none"
    /\ frame' = [frame EXCEPT ![f].kind = k]
    /\ object' = [object EXCEPT ![o] = [life |-> "live", kind |-> k, coro |-> f]]
    /\ UNCHANGED notOwnVars

\* X() noexcept : _coro(nullptr) {}
OwnDefault(o, k) ==
    /\ object[o].life = "unborn"
    /\ object' = [object EXCEPT ![o] = [life |-> "live", kind |-> k, coro |-> Null]]
    /\ UNCHANGED frame
    /\ UNCHANGED notOwnVars

\* X(X&& other) noexcept : _coro(std::exchange(other._coro, {})) {}
OwnMoveConstruct(o, other) ==
    /\ object[o].life = "unborn"
    /\ object[other].life = "live"
    /\ object' = [object EXCEPT
                    ![other].coro = moved_from(object[other].coro),
                    ![o] = [life |-> "live", kind |-> object[other].kind,
                            coro |-> object[other].coro]]
    /\ UNCHANGED frame
    /\ UNCHANGED notOwnVars

\* X& operator=(X&& other) noexcept, o = std::move(o) included
OwnMoveAssign(o, other) ==
    /\ object[o].life = "live"
    /\ object[other].life = "live"
    /\ object[o].kind = object[other].kind
    /\ object' = move_assign(object, frame, o, other)[1]
    /\ frame' = move_assign(object, frame, o, other)[2]
    /\ UNCHANGED notOwnVars

\* ~X() { if (_coro) _coro.destroy(); }
OwnDestruct(o) ==
    /\ object[o].life = "live"
    /\ frame' = destroy(frame, object[o].coro)
    /\ object' = [object EXCEPT ![o].life = "dead"]
    /\ UNCHANGED notOwnVars

OwnNext ==
    \/ \E o \in Objects, f \in Owned, k \in Kinds : OwnCreate(o, f, k)
    \/ \E o \in Objects, k \in Kinds : OwnDefault(o, k)
    \/ \E o \in Objects, other \in Objects : OwnMoveConstruct(o, other)
    \/ \E o \in Objects, other \in Objects : OwnMoveAssign(o, other)
    \/ \E o \in Objects : OwnDestruct(o)

OwnSpec == Init /\ [][OwnNext]_vars

----------------------------------------------------------------------------
(***************************************************************************)
(* Properties of Task<T> and get_sync                                      *)
(***************************************************************************)

\* C1: when a Task completes, its notifier on_completed, if set, has run
\* in full before final_awaiter hands control to the continuation, and the
\* value or the error was already stored when the notifier ran.
C1_NotifierBeforeContinuation ==
    \A f \in Frames : hist[f].notifyStored /\ hist[f].transferAfterNotify

C1_Witness ==
    \E f \in Frames :
        /\ promise[f].on_completed /\ hist[f].notify = 1 /\ hist[f].left
        /\ Resolved(promise[f])

\* C2: the continuation of a Task is resumed at most once, only by the
\* Task's final_awaiter with the value or error stored, and a coroutine
\* suspended on a Task never runs again while that Task is unresolved.
C2_ContinuationOnceAfterResolved ==
    \A f \in Frames :
        /\ hist[f].transfers <= 1
        /\ hist[f].transferResolved
        /\ (st[f] = "resuming" =>
               st[awaiting[f]] = "final" /\ Resolved(promise[awaiting[f]]))

\* a child that suspended, was resumed by the other thread, finished, and
\* whose awaiting parent then read its result
C2_Witness ==
    \E c \in Frames :
        /\ hist[c].transfers = 1 /\ suspends > 0
        /\ promise[c].continuation # Null
        /\ got[promise[c].continuation] = bodyOut[c]
        /\ awaiting[promise[c].continuation] = c

C3_Safe ==
    /\ hist[Root].notify <= 1
    /\ (mpc = "returned" =>
          /\ st[Root] = "final"
          /\ hist[Root].notify = 1
          /\ syncOut = bodyOut[Root])

\* C3: get_sync returns the outcome of the Task, once, whether the Task
\* resolves inside resume() on the calling thread or later on another thread
\* while the caller waits on the condition variable; the notification is
\* never lost: once the Task is resolved the caller returns.
C3_BlockingGet ==
    /\ []C3_Safe
    /\ ((st[Root] = "final") ~> (mpc = "returned"))

\* the caller was blocked in cv.wait when the other thread notified it
C3_Witness ==
    /\ mpc = "returned" /\ hist[Root].woke /\ syncOut.kind = "val"
    /\ cur["bg"] = Null

\* the Task resolved inside resume() on the calling thread
C3_WitnessInline ==
    /\ mpc = "returned" /\ suspends = 0 /\ syncOut.kind = "val"

\* C4: an exception leaving a Task body is stored in the promise and stays
\* there; it travels on only through await_resume, into the body of the
\* awaiting coroutine, or through get_sync, to its caller, unchanged.
C4_ErrorsCapturedAndRethrown ==
    /\ \A f \in Frames :
          /\ (st[f] = "final" /\ bodyOut[f].kind = "err" =>
                 promise[f].exception = bodyOut[f].val)
          /\ (inflight[f] # NoExc <=> st[f] = "raised")
          /\ (got[f] # NoOutcome /\ bodyOut[awaiting[f]].kind = "err" =>
                 got[f] = bodyOut[awaiting[f]])
    /\ (mpc = "returned" /\ bodyOut[Root].kind = "err" => syncOut = bodyOut[Root])

\* an error raised in a child reached get_sync's caller through the root
C4_Witness ==
    /\ mpc = "returned" /\ syncOut.kind = "err"
    /\ \E c \in Frames : c # Root /\ bodyOut[c].kind = "err"
                          /\ got[Root] = bodyOut[c]

----------------------------------------------------------------------------
(***************************************************************************)
(* Properties of AsyncGenerator<T> and collectAll                          *)
(***************************************************************************)

\* C5: collectAll of a stream that yields N values and ends returns exactly
\* those N values in yield order, after exactly N + 1 calls of next(), the
\* last of which is the only one to produce "no value".
C5_CollectAllExact ==
    (mode = "collect" /\ cpc = "done" /\ collectOut.kind = "val") =>
        /\ collectOut.val = gsrc
        /\ ghist.terminals = 1
        /\ pulls = Len(gsrc) + 1

\* C6: once a next() has produced "no value" or an error, every later
\* next() produces "no value" and the stream body is not resumed again.
C6_NotRestartable ==
    ghist.lateResumes = 0 /\ ~ghist.lateValue
----------------------------------------------------------------------------
(***************************************************************************)
(* Properties of the ActorAgent worker                                     *)
(***************************************************************************)
\* C7: tasks submitted in the order 1, 2, 3 from one thread are dequeued and
\* processed in exactly that order: the dequeued tasks are the first of the
\* submitted ones, in order, the processed ones are the first of the dequeued
\* ones, and the queue holds exactly the submitted tasks not yet dequeued, in
\* order - none skipped, duplicated or reordered.
C7_WorkerFIFO ==
    /\ Len(ahist.started) <= nsub
    /\ \A i \in 1..Len(ahist.started) : ahist.started[i] = i
    /\ Len(ahist.processed) <= Len(ahist.started)
    /\ \A i \in 1..Len(ahist.processed) : ahist.processed[i] = ahist.started[i]
    /\ Len(inbound_tasks_) = nsub - Len(ahist.started)
    /\ \A i \in 1..Len(inbound_tasks_) : inbound_tasks_[i] = Len(ahist.started) + i

\* all three tasks were processed, the last one submitted after an earlier
\* one had already been processed and had failed
C7_Witness ==
    /\ ahist.processed = <<1, 2, 3>>
    /\ ahist.errors # <<>>
    /\ ahist.subAtError < 3

C10_FeedbackUnblocks ==
    /\ [][(wpc = "parked" /\ wpc' # "parked")
            => (ahist.given \in Texts /\ ahist'.got = ahist.given)]_vars
    /\ []((wpc = "parked" /\ ahist.given \in Texts) => ENABLED FeedbackResume)

\* the wait was parked, "yes" was provided, the computation runs again with it
C10_Witness ==
    /\ wpc = "processing"
    /\ wasked
    /\ ahist.given = "yes"
    /\ ahist.got = "yes"
\* C11: provideFeedback called while no waitForFeedback is outstanding raises
\* nothing and changes nothing: the call is possible in every such state, and
\* it leaves the queue, the agent state, the slot and the worker as they were,
\* however many such calls follow each other.
C11_FeedbackWithoutWaitIsNoOp ==
    /\ [][(wpc # "parked" /\ ahist'.dropped # ahist.dropped)
            => UNCHANGED <<inbound_tasks_, stop_flag_, queue_mutex_, feedback_promise_,
                           state_, wpc, wcur, wasked, spc, nsub>>]_vars
    /\ []((wpc # "parked")
            => \A text \in Texts :
                  /\ ENABLED ProvideFeedback(text)
                  /\ feedback_write(feedback_promise_, text) = feedback_promise_)

\* two calls in a row on an agent that has never waited, nor run a task
C11_Witness ==
    /\ ahist.dropped = 2
    /\ state_ = "READY"
    /\ feedback_promise_ = "none"
----------------------------------------------------------------------------
----------------------------------------------------------------------------
(***************************************************************************)
(* Further properties of AsyncGenerator<T>                                 *)
(***************************************************************************)
\* C15: an error raised by the stream body during a call of next() goes to
\* the consumer of that same call: the Task of the call stores it as its
\* exception and no value, and the co_await of that Task raises it - the call
\* delivers neither a value nor "no value".
C15_StreamErrorReachesSameNext ==
    (ghist.threwIn # 0 /\ pulls = ghist.threwIn) =>
        /\ nst = "final" => (np.exception = gen.exception /\ np.result = Empty)
        /\ cpc \in {"resumed", "done"} => item = Err(gen.exception)
        /\ cpc # "crashed"

\* the body yielded a value, then threw during the second next(), and the
\* consumer of the second next() holds the error
C15_Witness ==
    /\ ghist.threwIn = 2 /\ pulls = 2
    /\ cpc = "resumed"
    /\ item = Err("boom")
    /\ results # <<>>
\* C16: a value that was yielded and not yet taken by a next() is never
\* overwritten: the stream body is resumed only when no yielded value is
\* pending, in whatever order the Tasks of next() are created and awaited.
C16_YieldNotOverwritten ==
    /\ ~ghist.overwritten
    /\ (nst = "running" /\ ~gen_done(gen)) => ~ghist.pending
    /\ ghist.pending => nst = "resumed"
    /\ \A i \in 1..Len(results) : i <= gen.pos => results[i] = gsrc[i]

\* two Tasks of next() were created before either was awaited; both have
\* been awaited since and each delivered its own value
C16_Witness ==
    /\ ghist.ahead
    /\ ghist.resumes = 2
    /\ Len(gsrc) = 2
    /\ results = gsrc
----------------------------------------------------------------------------
----------------------------------------------------------------------------
(***************************************************************************)
(* Threads, lifetime and readiness of Task<T>                              *)
(***************************************************************************)
\* C21: a chain of Tasks whose bodies await only other Tasks is driven by the
\* thread that called get_sync alone: no step of the chain runs on another
\* thread, at most one frame of the chain is executing at any time - the one
\* the calling thread is in - and a parent resumes from its co_await only
\* when the child it awaited is at its final suspension point, resolved.
C21_SingleThreadChain ==
    suspends = 0 =>
        /\ cur["bg"] = Null /\ plan["bg"] = <<>>
        /\ \A f \in Frames : st[f] \in {"running", "resuming", "raised"} => cur["main"] = f
        /\ \A f \in Frames :
              (st[f] = "resuming" \/ got[f] # NoOutcome) =>
                  /\ st[awaiting[f]] = "final"
                  /\ Resolved(promise[awaiting[f]])

\* the root awaited a child that ran to completion inside the same resume()
\* and is running again with the child's value
C21_Witness ==
    /\ suspends = 0
    /\ mpc = "driving"
    /\ cur["main"] = Root /\ st[Root] = "running"
    /\ \E c \in Frames : c # Root /\ awaiting[Root] = c /\ hist[c].transfers = 1
                          /\ got[Root] = bodyOut[c] /\ got[Root].kind = "val"

\* what a Task<void> promise holds of a Task<T> promise: all but the result
VoidOf(p) == [exception |-> p.exception, continuation |-> p.continuation,
              on_completed |-> p.on_completed]

\* the same outcome apart from the value: nothing, the same error, or a
\* normal return
SameOutcome(o, vo) ==
    CASE o.kind = "err" -> vo = o
      [] o.kind = "val" -> vo = Val(Unit)
      [] OTHER -> vo = o

\* C22: a Task<void> taken through the same operations as a Task<T> (create,
\* co_await, get_sync, its body returning or throwing) is in the same state
\* at every point: its promise holds the same error, continuation and
\* notifier, its final awaiter has the same steps left (notifier first, then
\* the continuation), its get_sync sees the same flag, await_ready and
\* await_suspend decide alike, and every read raises the same error or
\* returns normally where the Task<T> returns a value.
C22_VoidSameAsValue ==
    /\ \A f \in Frames : vpromise[f] = VoidOf(promise[f])
    /\ \A t \in Threads : vplan[t] = plan[t]
    /\ vdone = done
    /\ void_get_sync_wait_pred = get_sync_wait_pred
    /\ \A c \in Frames : void_await_ready(c) = await_ready(c)
    /\ \A f \in Frames, c \in Frames : void_await_suspend(f, c) = await_suspend(f, c)
    /\ \A f \in Frames : SameOutcome(got[f], vgot[f])
    /\ SameOutcome(syncOut, vsyncOut)

\* get_sync raised the error of the root after the root had read a value
\* from one child: both kinds of outcome went through both Tasks, and the
\* caller was woken by the notifier from another thread
C22_Witness ==
    /\ mpc = "returned"
    /\ syncOut = Err("boom") /\ vsyncOut = Err("boom")
    /\ hist[Root].woke
    /\ got[Root].kind = "val" /\ vgot[Root] = Val(Unit)

\* C23: get_sync on a Task that holds no coroutine raises "Invalid Task" and
\* does nothing else: the call cannot take any other step, it registers no
\* notifier, resumes no frame, takes no lock and does not block.
C23_InvalidTask ==
    /\ [][(mpc = "start" /\ taskCoro = Null /\ mpc' # "start")
            => /\ mpc' = "returned"
               /\ syncOut' = Err(InvalidTask)
               /\ UNCHANGED <<st, promise, cur, plan, m, done, hist, vpromise>>]_vars
    /\ []((mpc = "start" /\ taskCoro = Null) => ENABLED GetSyncInvalid)

\* the Task was moved from before its first get_sync: the call has raised,
\* the frame was never resumed and carries no notifier
C23_Witness ==
    /\ mpc = "returned"
    /\ syncOut = Err(InvalidTask)
    /\ taskCoro = Null
    /\ st[Root] = "init"
    /\ ~promise[Root].on_completed

C25_DetachedWorkIsolated ==
    /\ \A w \in Units :
          (work[w] = "none" /\ \A u \in Units : u < w => work[u] # "none")
              => ENABLED ExecutorAdd(w)
    /\ (\E w \in Units : work[w] = "threw") =>
          /\ process = "alive"
          /\ callerSteps < MaxCallerSteps => ENABLED CallerStep
          /\ \A u \in Units : work[u] = "running" =>
                ENABLED WorkEnd(u, "returned")

\* C26: a Task at its final suspension point holds exactly one of a result
\* and an exception, the Task of a next() that found the stream finished
\* included; every read of a completed Task therefore finds a stored outcome.
C26_ExactlyOneSlot ==
    /\ \A f \in Frames :
          st[f] = "final" => (promise[f].result # Empty) # (promise[f].exception # NoExc)
    /\ nst = "final" => (np.result # Empty) # (np.exception # NoExc)

\* C27: once get_sync has returned - its mutex, condition variable and flag
\* are gone and its caller may destroy the Task - no thread is still inside
\* the final awaiter of that Task with the notification or the read of the
\* continuation ahead of it.
C27_NoUseAfterReturn ==
    mpc = "returned" =>
        \A t \in Threads : ~(cur[t] = Root /\ st[Root] = "final" /\ plan[t] # <<>>)

\* C28: get_sync resumes the frame of its Task only when the frame is
\* suspended at its initial point, never when it is at its final suspension
\* point or running: a call on a resolved Task goes on without resume().
C28_NoResumeOfFinishedFrame ==
    [][(mpc = "armed" /\ mpc' # "armed") => st[Root] \notin {"final", "running"}]_vars

\* C29: await_ready() is true only for a resolved Task: whenever a co_await
\* produces something without suspending or after being resumed, the Task
\* it read is at its final suspension point and holds a value or an error.
C29_ReadyOnlyWhenResolved ==
    [][\A f \in Frames :
          (got'[f] # got[f] /\ got'[f] # NoOutcome) =>
              /\ st[awaiting'[f]] = "final"
              /\ Resolved(promise[awaiting'[f]])]_vars

\* C30: get_sync reads and returns the outcome only when the body of its
\* Task has run to the final suspension point and the notifier has set the
\* flag: the caller leaves cv.wait only with the flag set, and as long as the
\* body is suspended short of its end every wakeup sends it back to waiting.
C30_NoEarlyReturn ==
    /\ []((mpc \in {"read", "returned"}) =>
            /\ st[Root] = "final"
            /\ bodyOut[Root] # NoOutcome
            /\ done /\ hist[Root].notify >= 1)
    /\ [][(mpc = "locked" /\ st[Root] # "final" /\ mpc' # "locked")
            => mpc' = "waiting"]_vars
    /\ [][(mpc' = "returned" /\ mpc # "returned") => syncOut' = bodyOut[Root]]_vars

\* the body is suspended on something another thread will resume; the caller
\* was woken without a notification and is blocked in cv.wait again
C30_Witness ==
    /\ st[Root] = "susp"
    /\ spurious = 1
    /\ mpc = "waiting"
    /\ ~done

\* C31: a Task is lazy. The call that creates it leaves the new frame at its
\* initial suspension point and runs nothing: the creating thread stays in
\* the creator and no promise, outcome or history changes. A frame leaves
\* its initial suspension point only through get_sync's resume() or through
\* the await_suspend of the coroutine that awaits it, or by being destroyed;
\* and a Task destroyed without having been awaited has run nothing and
\* stays destroyed.
C31_LazyTask ==
    /\ [][\A c \in Frames :
            (st[c] = "none" /\ st'[c] # "none") =>
                /\ st'[c] = "init"
                /\ UNCHANGED <<cur, promise, bodyOut, hist, got, plan>>]_vars
    /\ [][\A c \in Frames :
            (st[c] = "init" /\ st'[c] # "init") =>
                \/ c = Root /\ mpc = "armed" /\ mpc' = "driving" /\ st'[c] = "running"
                \/ \E f \in Frames :
                      /\ st[f] = "running" /\ st'[f] = "awaiting"
                      /\ awaiting'[f] = c /\ promise'[c].continuation = f
                      /\ st'[c] = "running"
                \/ st'[c] = "destroyed"]_vars
    /\ [][\A c \in Frames : st[c] = "destroyed" => st'[c] = "destroyed"]_vars
    /\ [](\A c \in Frames :
            (st[c] \in {"init", "destroyed"} /\ hist[c].awaits = 0) =>
                /\ bodyOut[c] = NoOutcome
                /\ promise[c].result = Empty /\ promise[c].exception = NoExc
                /\ \A t \in Threads : cur[t] # c)

\* a child Task was created and destroyed without being awaited, and its
\* creator has run to its end since
C31_Witness ==
    \E c \in Frames :
        /\ c # Root
        /\ st[c] = "destroyed" /\ hist[c].awaits = 0
        /\ st[owner[c]] = "final" /\ bodyOut[owner[c]].kind = "val"

C33_SlotCleared ==
    ~ghist.pending => gen.current = Empty

\* C33 (what the code does): next() moves the value out of the slot and
\* leaves the slot engaged - with a moved-from value, or with the same value
\* for a trivially copyable T - until the body yields again; nothing resets
\* it. The slot is read only by a next() whose own resumption reached a
\* yield, so the leftover is never delivered.
C33_SlotMovedNotCleared ==
    /\ [][(nst = "resumed" /\ nst' = "final" /\ next_after_resume(gen) = "value") =>
            /\ gen'.current = (IF trivialT THEN gen.current ELSE Moved)
            /\ gen'.current # Empty
            /\ np'.result = gen.current]_vars
    /\ [][(gen.current # Empty /\ gen'.current # gen.current) =>
            \/ nst = "running" /\ nst' = "resumed" /\ gen'.st = "yielded"
            \/ nst = "resumed" /\ nst' = "final" /\ gen'.current = Moved]_vars
    /\ [][(nst = "resumed" /\ nst' = "final" /\ np'.result \notin {Empty, Nullopt}) =>
            (ghist.pending /\ ~ghist'.pending /\ np'.result # Moved)]_vars
    /\ [](ghist.resumes > 0 /\ gen.pos > 0 /\ ~ghist.pending => gen.current # Empty)

\* the body yielded once and ended; the value was delivered, the end of the
\* stream was seen, and the slot still holds the moved-from value
C33_Witness ==
    /\ ~trivialT
    /\ gen.st = "final" /\ gen.pos = 1
    /\ gen.current = Moved
    /\ results = gsrc
    /\ ghist.termSeen

\* C34: a coroutine frame is held by at most one Task / AsyncGenerator
\* object and is destroyed exactly once. A frame not yet destroyed is held
\* by exactly one live object, a destroyed one by none, and no frame is
\* destroyed twice; a move leaves the source holding no frame and gives the
\* target the source's frame, a move assignment destroying the frame the
\* target held before; self-assignment changes nothing; and the destructor
\* of an object that holds no frame destroys nothing.
Holders(f) == {o \in Objects : object[o].life = "live" /\ object[o].coro = f}

C34_SingleOwner ==
    /\ [](\A f \in Owned :
            /\ frame[f].destroys <= 1
            /\ frame[f].kind = "none" => (Holders(f) = {} /\ frame[f].destroys = 0)
            /\ (frame[f].kind # "none" /\ frame[f].destroys = 0) =>
                    Cardinality(Holders(f)) = 1
            /\ frame[f].destroys = 1 => Holders(f) = {}
            /\ \A o \in Holders(f) : object[o].kind = frame[f].kind)
    /\ [](\A o \in Objects :
            object[o].life = "live" => move_assign(object, frame, o, o) = <<object, frame>>)
    /\ [][\A o \in Objects :
            (object[o].life = "live" /\ object[o].coro # Null
             /\ object'[o].life = "live" /\ object'[o].coro # object[o].coro) =>
                \/ /\ object'[o].coro = Null
                   /\ frame'[object[o].coro] = frame[object[o].coro]
                   /\ \E n \in Objects \ {o} :
                         /\ object'[n].life = "live"
                         /\ object'[n].coro = object[o].coro
                \/ /\ frame'[object[o].coro].destroys = 1
                   /\ \E src \in Objects \ {o} :
                         /\ object[src].life = "live" /\ object'[src].coro = Null
                         /\ object'[o].coro = object[src].coro]_vars
    /\ [][\A f \in Owned :
            frame'[f].destroys # frame[f].destroys =>
                \E o \in Holders(f) :
                    object'[o].life = "dead" \/ object'[o].coro # f]_vars
    /\ [][\A o \in Objects :
            (object[o].life = "live" /\ object'[o].life = "dead") =>
                frame' = destroy(frame, object[o].coro)]_vars
    /\ [][\A o \in Objects :
            (object[o].life = "live" /\ object[o].coro = Null
             /\ object'[o].life = "dead") => frame' = frame]_vars

\* a frame was moved from one object to another twice, once into an object
\* that held another frame, and every object has been destroyed: both
\* frames were destroyed once
C34_Witness ==
    /\ \A o \in Objects : object[o].life = "dead"
    /\ \A f \in Owned : frame[f].kind # "none" /\ frame[f].destroys = 1
    /\ \E o \in Objects : object[o].coro = Null
    /\ \E o \in Objects : object[o].coro # Null

\* C35: a blockingWait called by the body of a Task that an outer
\* blockingWait drives, on another Task, completes, and the outer one
\* completes after it. The completion of each Task sets the flag of its own
\* get_sync only, so a flag is set only when that Task is at its end; the
\* inner get_sync, once entered, returns with the outcome of the inner Task
\* and hands control back to the outer body; the outer get_sync returns
\* with the outcome of the outer Task; and short of that some step is
\* always possible.
C35_NestedWaitCompletes ==
    /\ [](\A l \in Levels :
            /\ nest[l].done => (nest[l].st = "final" /\ nest[l].res.kind # "none")
            /\ nest[l].pc = "returned" =>
                  (nest[l].done /\ nest[l].out = nest[l].res /\ nest[l].out.kind # "none"))
    /\ [](nest["outer"].st = "blocked" <=>
            nest["inner"].pc \notin {"idle", "returned"})
    /\ [](nest["outer"].pc # "returned" => ENABLED NestNext)
    /\ (nest["inner"].pc = "start") ~> (nest["inner"].pc = "returned")
    /\ <>(nest["outer"].pc = "returned")

\* the outer body called blockingWait on a Task whose body suspended and
\* was completed by another thread while the caller waited; the inner wait
\* has returned, and so has the outer one
C35_Witness ==
    /\ nest["inner"].pc = "returned" /\ nest["inner"].susp > 0
    /\ nest["inner"].out.kind = "val"
    /\ nest["outer"].pc = "returned" /\ nest["outer"].out.kind = "val"

\* C36: when the stream body raises an error during a drain by collectAll,
\* the caller of collectAll gets that error and no sequence: the drain ends
\* with the error of the body as its outcome, whatever was collected, a
\* sequence is returned only if the body never threw, and next() is not
\* called again after the call in which the body threw.
C36_DrainErrorPropagates ==
    /\ [](mode = "collect" /\ ghist.threwIn # 0 =>
            /\ pulls = ghist.threwIn
            /\ cpc \in {"awaiting", "resumed", "done"}
            /\ collectOut.kind # "val"
            /\ cpc = "done" => collectOut = Err(gen.exception))
    /\ [](mode = "collect" /\ collectOut.kind = "val" =>
            (gend = "return" /\ ghist.threwIn = 0 /\ gen.exception = NoExc))
    /\ [][(mode = "collect" /\ cpc = "resumed" /\ item.kind = "err") =>
            (cpc' = "done" /\ collectOut' = item /\ pulls' = pulls /\ nst' = nst)]_vars

\* the body yielded two values and then threw; collectAll had collected
\* both and ended with the error
C36_Witness ==
    /\ mode = "collect" /\ cpc = "done"
    /\ ghist.threwIn = 3 /\ pulls = 3
    /\ Len(results) = 2
    /\ collectOut = Err("boom")
====
